---------------------------- MODULE Spec2Model ----------------------------
(* A model of src/main.py: the Lexer, the binding-power tables, the         *)
(* recursive expr_bp engine (as a machine with an explicit call stack) and  *)
(* the printer S.__str__.  Characters are one-character strings, an input   *)
(* string is a sequence of characters, a printed tree is a string.          *)
EXTENDS Integers, Sequences, FiniteSets, TLC

VARIABLES
  input,    \* the argument of the current call of expr
  tokens,   \* Lexer.tokens: the remaining tokens, reversed (next token last)
  stack,    \* the activations of expr_bp, innermost last
  ret,      \* the value returned by the activation that ended last
  status,   \* "running", "returned" or the name of the exception raised
  result,   \* the value expr returned
  seen,     \* the last token the parser took or peeked, and where
  prev,     \* outcome of expr on the input without its outermost "(" ")"
  wraps     \* how many times the driver has re-run expr on "(" input ")"

vars == <<input, tokens, stack, ret, status, result, seen, prev, wraps>>

-----------------------------------------------------------------------------
(* Bounds *)

\* longest input of the exhaustive family
MaxLen == 4

\* how many times an accepted input is wrapped in parentheses and re-parsed
MaxWrap == 2

-----------------------------------------------------------------------------
(* Token model *)

Token(type, char) == [type |-> type, char |-> char]

Token_Atom(char) == Token("ATOM", char)

Token_Op(char) == Token("OP", char)

Token_Eof == Token("EOF", "\\0")

\* the characters str.isalnum accepts, among those the inputs are drawn from
AlnumChars ==
  {"a", "b", "c", "d", "e", "f", "g", "h", "x", "0", "1", "2", "3", "4", "9"}

IsAlnum(char) == char \in AlnumChars

-----------------------------------------------------------------------------
(* Lexer *)

RECURSIVE RemoveSpaces(_)
RemoveSpaces(str) ==
  IF str = <<>> THEN <<>>
  ELSE IF Head(str) = " " THEN RemoveSpaces(Tail(str))
  ELSE <<Head(str)>> \o RemoveSpaces(Tail(str))

Classify(char) == IF IsAlnum(char) THEN Token_Atom(char) ELSE Token_Op(char)

Reverse(seq) == [i \in 1..Len(seq) |-> seq[Len(seq) + 1 - i]]

Lexer_init(input_string) ==
  LET chars == RemoveSpaces(input_string)
  IN  Reverse([i \in 1..Len(chars) |-> Classify(chars[i])])

\* Lexer.next: the token returned, and the token list left
Lexer_next_token(toks) == IF toks # <<>> THEN toks[Len(toks)] ELSE Token_Eof

\* Lexer.next leaving the token in the list, as peek does
Lexer_next_rest_keep(toks) == toks

Lexer_next_rest(toks) ==
  IF toks # <<>> THEN SubSeq(toks, 1, Len(toks) - 1) ELSE toks

Lexer_peek(toks) == IF toks # <<>> THEN toks[Len(toks)] ELSE Token_Eof

-----------------------------------------------------------------------------
(* S-expressions and the printer *)

NoTree == [type |-> "NONE", char |-> "", vec |-> <<>>]

S_Atom(char) == [type |-> "ATOM", char |-> char, vec |-> <<>>]

S_Cons(char, vec) == [type |-> "CONS", char |-> char, vec |-> vec]

RECURSIVE S_str(_)
RECURSIVE S_str_children(_, _)
S_str_children(vec, i) ==
  IF i > Len(vec) THEN ""
  ELSE " " \o S_str(vec[i]) \o S_str_children(vec, i + 1)

S_str(s) ==
  IF s.type = "ATOM" THEN s.char
  ELSE "(" \o s.char \o S_str_children(s.vec, 1) \o ")"

-----------------------------------------------------------------------------
(* Binding-power tables.  None stands for Python's None and for the        *)
(* unused half of a prefix or postfix pair; BadOp for raising BadOpError.  *)

None == <<-1, -1>>

BadOp == <<-2, -2>>

\* prefix_binding_power taking "*" for a prefix operator as well
prefix_binding_power_star(op) ==
  IF op \in {"+", "-", "*"} THEN <<-1, 9>> ELSE BadOp

prefix_binding_power(op) ==
  IF op \in {"+", "-"} THEN <<-1, 9>> ELSE BadOp

\* postfix_binding_power with powers below the prefix operators' 9
postfix_binding_power_low(op) ==
  CASE op = "!" -> <<8, -1>>
    [] op = "[" -> <<8, -1>>
    [] OTHER -> None

postfix_binding_power(op) ==
  CASE op = "!" -> <<11, -1>>
    [] op = "[" -> <<11, -1>>
    [] OTHER -> None

\* infix_binding_power with the pair of "+" and "-" the other way round
infix_binding_power_plus_swapped(op) ==
  CASE op = "=" -> <<2, 1>>
    [] op = "?" -> <<4, 3>>
    [] op \in {"+", "-"} -> <<6, 5>>
    [] op \in {"*", "/"} -> <<7, 8>>
    [] op = "." -> <<14, 13>>
    [] OTHER -> None

\* infix_binding_power with "?" given a left-associative pair
infix_binding_power_ternary_left(op) ==
  CASE op = "=" -> <<2, 1>>
    [] op = "?" -> <<4, 5>>
    [] op \in {"+", "-"} -> <<5, 6>>
    [] op \in {"*", "/"} -> <<7, 8>>
    [] op = "." -> <<14, 13>>
    [] OTHER -> None

infix_binding_power(op) ==
  CASE op = "=" -> <<2, 1>>
    [] op = "?" -> <<4, 3>>
    [] op \in {"+", "-"} -> <<5, 6>>
    [] op \in {"*", "/"} -> <<7, 8>>
    [] op = "." -> <<14, 13>>
    [] OTHER -> None


\* how l_bp is compared with min_bp in the loop: TRUE when the loop breaks
Stops(l_bp, min_bp) == l_bp < min_bp

-----------------------------------------------------------------------------
(* expr_bp as a machine.  A frame is one activation: pc is the place it    *)
(* is at, the other fields are its local variables.                        *)

Frame(min_bp) ==
  [pc |-> "operand", min_bp |-> min_bp, lhs |-> NoTree, op |-> "",
   mhs |-> NoTree, r_bp |-> -1]

Top == stack[Len(stack)]

SetTop(f) == [stack EXCEPT ![Len(stack)] = f]

\* a parenthesised sub-expression parsed with a prefix operator's power
GroupMinBp_prefix == prefix_binding_power("-")[2]

\* the min_bp a parenthesised sub-expression is parsed with
GroupMinBp == 0

\* the min_bp an index and a ternary middle operand are parsed with
InnerMinBp == 0

\* bool(token): Token defines neither __bool__ nor __len__
Truthy(token) == TRUE

\* the closing token only tested for truth, as after a ")"
TokenEq_truthy(token, other) == Truthy(token)

\* the comparison of the token after an index or a ternary middle operand
TokenEq(token, other) == token = other

\* the match on the peeked token without its last case
LoopMatch_noguard(token) ==
  CASE token.type = "OP"  -> "pass"
    [] OTHER              -> "break"

\* the match on the peeked token at the head of the loop
LoopMatch(token) ==
  CASE token.type = "EOF" -> "break"
    [] token.type = "OP"  -> "pass"
    [] OTHER              -> "raise"

NoSeen == [site |-> "none", tok |-> Token_Eof]

NoPrev == [str |-> "", left |-> -1]

Running(pc) == status = "running" /\ stack # <<>> /\ Top.pc = pc

\* an exception leaves expr_bp and expr: no activation and no value is left
Raise(exc) ==
  /\ status' = exc
  /\ stack' = <<>>
  /\ ret' = NoTree
  /\ result' = NoTree

\* the top activation calls expr_bp(lexer, min_bp) and waits at pc of f
Call(f, min_bp) ==
  /\ stack' = Append(SetTop(f), Frame(min_bp))
  /\ ret' = NoTree
  /\ UNCHANGED <<status, result>>

\* the top activation goes on as f
Goto(f) ==
  /\ stack' = SetTop(f)
  /\ ret' = NoTree
  /\ UNCHANGED <<status, result>>

\* return lhs: to the calling activation, or out of expr
Return(lhs) ==
  IF Len(stack) = 1
  THEN /\ status' = "returned"
       /\ result' = lhs
       /\ stack' = <<>>
       /\ ret' = NoTree
  ELSE /\ stack' = SubSeq(stack, 1, Len(stack) - 1)
       /\ ret' = lhs
       /\ UNCHANGED <<status, result>>

\* lines 106-117: the first token of an expression
Operand ==
  /\ Running("operand")
  /\ LET t == Lexer_next_token(tokens) IN
     /\ tokens' = Lexer_next_rest(tokens)
     /\ seen' = [site |-> "operand", tok |-> t]
     /\ CASE t.type = "ATOM" ->
               Goto([Top EXCEPT !.lhs = S_Atom(t.char), !.pc = "loop"])
          [] t.type = "OP" /\ t.char = "(" ->
               Call([Top EXCEPT !.pc = "group"], GroupMinBp)
          [] t.type = "OP" /\ t.char # "(" ->
               IF prefix_binding_power(t.char) = BadOp
               THEN Raise("BadOpError")
               ELSE Call([Top EXCEPT !.pc = "prefix", !.op = t.char],
                         prefix_binding_power(t.char)[2])
          [] OTHER -> Raise("BadTokenError")
  /\ UNCHANGED <<input, prev, wraps>>

\* lines 110-111: the parenthesised sub-expression has returned
GroupReturn ==
  /\ Running("group")
  /\ LET t == Lexer_next_token(tokens) IN
     /\ tokens' = Lexer_next_rest(tokens)
     /\ seen' = [site |-> "group", tok |-> t]
     /\ IF Truthy(t)
        THEN Goto([Top EXCEPT !.lhs = ret, !.pc = "loop"])
        ELSE Raise("AssertionError")
  /\ UNCHANGED <<input, prev, wraps>>

\* lines 114-115: the operand of a prefix operator has returned
PrefixReturn ==
  /\ Running("prefix")
  /\ Goto([Top EXCEPT !.lhs = S_Cons(Top.op, <<ret>>), !.pc = "loop"])
  /\ UNCHANGED <<input, tokens, seen, prev, wraps>>

\* lines 119-161: one iteration of the loop, up to the next call of
\* expr_bp, the next iteration, an exception or the return
Loop ==
  /\ Running("loop")
  /\ LET t    == Lexer_peek(tokens)
         op   == t.char
         post == postfix_binding_power(op)
         inf  == infix_binding_power(op)
     IN
     /\ seen' = [site |-> "loop", tok |-> t]
     /\ CASE LoopMatch(t) = "break" ->
               Return(Top.lhs) /\ UNCHANGED tokens
          [] LoopMatch(t) = "raise" ->
               Raise("BadTokenError") /\ UNCHANGED tokens
          [] LoopMatch(t) = "pass" /\ post # None ->
               IF Stops(post[1], Top.min_bp)
               THEN Return(Top.lhs) /\ UNCHANGED tokens
               ELSE /\ tokens' = Lexer_next_rest(tokens)
                    /\ IF op = "["
                       THEN Call([Top EXCEPT !.pc = "index", !.op = op],
                                 InnerMinBp)
                       ELSE Goto([Top EXCEPT
                                    !.lhs = S_Cons(op, <<Top.lhs>>)])
          [] LoopMatch(t) = "pass" /\ post = None /\ inf # None ->
               IF Stops(inf[1], Top.min_bp)
               THEN Return(Top.lhs) /\ UNCHANGED tokens
               ELSE /\ tokens' = Lexer_next_rest(tokens)
                    /\ IF op = "?"
                       THEN Call([Top EXCEPT !.pc = "mid", !.op = op,
                                             !.r_bp = inf[2]], InnerMinBp)
                       ELSE Call([Top EXCEPT !.pc = "rhs", !.op = op,
                                             !.r_bp = inf[2]], inf[2])
          [] OTHER -> Return(Top.lhs) /\ UNCHANGED tokens
  /\ UNCHANGED <<input, prev, wraps>>

\* lines 135-137: the index expression has returned
IndexReturn ==
  /\ Running("index")
  /\ LET t == Lexer_next_token(tokens) IN
     /\ tokens' = Lexer_next_rest(tokens)
     /\ seen' = [site |-> "index", tok |-> t]
     /\ IF TokenEq(t, Token_Op("]"))
        THEN Goto([Top EXCEPT !.lhs = S_Cons(Top.op, <<Top.lhs, ret>>),
                              !.pc = "loop"])
        ELSE Raise("AssertionError")
  /\ UNCHANGED <<input, prev, wraps>>

\* lines 149-151: the middle operand of a ternary has returned
TernaryMid ==
  /\ Running("mid")
  /\ LET t == Lexer_next_token(tokens) IN
     /\ tokens' = Lexer_next_rest(tokens)
     /\ seen' = [site |-> "colon", tok |-> t]
     /\ IF TokenEq(t, Token_Op(":"))
        THEN /\ stack' = Append(SetTop([Top EXCEPT !.mhs = ret,
                                                   !.pc = "rhs3"]),
                                Frame(Top.r_bp))
             /\ ret' = NoTree
             /\ UNCHANGED <<status, result>>
        ELSE Raise("AssertionError")
  /\ UNCHANGED <<input, prev, wraps>>

\* lines 151-152: the right operand of a ternary has returned
TernaryRhs ==
  /\ Running("rhs3")
  /\ Goto([Top EXCEPT !.lhs = S_Cons(Top.op, <<Top.lhs, Top.mhs, ret>>),
                      !.pc = "loop"])
  /\ UNCHANGED <<input, tokens, seen, prev, wraps>>

\* lines 154-155: the right operand of a binary operator has returned
InfixRhs ==
  /\ Running("rhs")
  /\ Goto([Top EXCEPT !.lhs = S_Cons(Top.op, <<Top.lhs, ret>>),
                      !.pc = "loop"])
  /\ UNCHANGED <<input, tokens, seen, prev, wraps>>

\* one step of the parse in progress
Step ==
  \/ Operand
  \/ GroupReturn
  \/ PrefixReturn
  \/ Loop
  \/ IndexReturn
  \/ TernaryMid
  \/ TernaryRhs
  \/ InfixRhs

\* expr(input_string): a Lexer of its own and expr_bp(lexer, 0)
Start(str) ==
  /\ input = str
  /\ tokens = Lexer_init(str)
  /\ stack = <<Frame(0)>>
  /\ ret = NoTree
  /\ status = "running"
  /\ result = NoTree
  /\ seen = NoSeen

\* the caller re-runs expr on the input it had a tree for, parenthesised
\* (test_parser: expr("(((0)))"))
Wrap ==
  /\ status = "returned"
  /\ wraps < MaxWrap
  /\ input' = <<"(">> \o input \o <<")">>
  /\ tokens' = Lexer_init(input')
  /\ stack' = <<Frame(0)>>
  /\ ret' = NoTree
  /\ status' = "running"
  /\ result' = NoTree
  /\ seen' = NoSeen
  /\ prev' = [str |-> S_str(result), left |-> Len(tokens)]
  /\ wraps' = wraps + 1


-----------------------------------------------------------------------------
(* The inputs expr is run on *)

\* the characters of the exhaustive family: an atom, the grouping and
\* indexing delimiters, and one operator of every binding power
Chars == {"1", "(", ")", "+", "*", "=", ".", "?", ":", "!", "[", "]"}

RECURSIVE Strings(_)
Strings(n) ==
  IF n = 0 THEN {<<>>}
  ELSE LET shorter == Strings(n - 1)
       IN  shorter \cup {Append(str, c) : str \in shorter, c \in Chars}

\* the inputs of test_parser and of main
TestInputs == {
  <<"1">>,
  <<"1", " ", "+", " ", "2", " ", "*", " ", "3">>,
  <<"a", " ", "+", " ", "b", " ", "*", " ", "c", " ", "*", " ", "d", " ", "+", " ", "e">>,
  <<"f", " ", ".", " ", "g", " ", ".", " ", "h">>,
  <<" ", "1", " ", "+", " ", "2", " ", "+", " ", "f", " ", ".", " ", "g", " ", ".", " ", "h", " ", "*", " ", "3", " ", "*", " ", "4">>,
  <<"-", "-", "1", " ", "*", " ", "2">>,
  <<"-", "-", "f", " ", ".", " ", "g">>,
  <<"-", "9", "!">>,
  <<"f", " ", ".", " ", "g", " ", "!">>,
  <<"(", "(", "(", "0", ")", ")", ")">>,
  <<"x", "[", "0", "]", "[", "1", "]">>,
  <<"a", " ", "?", " ", "b", " ", ":", " ", "c", " ", "?", " ", "d", " ", ":", " ", "e">>,
  <<"a", " ", "=", " ", "0", " ", "?", " ", "b", " ", ":", " ", "c", " ", "=", " ", "d">>,
  <<"1", " ", "+", " ", "x", "[", "0", "]">> }

\* inputs with a missing or wrong closing delimiter, tokens left over,
\* an operand missing, or two operands in a row
MalformedInputs == {
  <<"(", "1">>,
  <<"(", "1", "]">>,
  <<"(", "1", ":">>,
  <<"(", "a", "+", "b">>,
  <<"1", ")">>,
  <<"1", "]", "2">>,
  <<"1", " ", "+">>,
  <<"*", "1">>,
  <<"(", ")">>,
  <<"x", "[", "0">>,
  <<"x", "[", "0", ")">>,
  <<"x", "[", "0", ":">>,
  <<"a", " ", "?", " ", "b">>,
  <<"a", " ", "?", " ", "b", " ", "]", " ", "c">>,
  <<"a", " ", "?", " ", "b", " ", ")", " ", "c">>,
  <<"1", " ", "2">>,
  <<"(", "1", ")", "2">>,
  <<"x", "[", "0", "]", "1">>,
  <<"a", "?", "b", ":", "c", " ", "d">> }

Atoms == {"a", "b", "c"}

BinaryOps == {"=", "+", "-", "*", "/", "."}

PrefixOps == {"+", "-"}

LeftAtoms == {"x", "9"}

RightAtoms == {"g", "0"}

\* a op1 b op2 c
InfixInputs ==
  {<<a, op1, b, op2, c>> :
     a \in Atoms, b \in Atoms, c \in Atoms,
     op1 \in BinaryOps, op2 \in BinaryOps}

\* prefix and postfix operators next to each other and next to infix ones
PrefixPostfixInputs ==
  UNION {
        {<<p, x, "!">>, <<p, x, "[", y, "]">>, <<p, x, ".", y>>,
         <<p, x, "?", y, ":", x>>, <<p, p, x, ".", y>>,
         <<x, ".", y, "!">>, <<x, ".", y, "[", x, "]">>,
         <<x, "!", "!">>, <<x, "!", "[", y, "]">>, <<x, "[", y, "]", "!">>,
         <<x, "[", y, "]", "[", x, "]">>} :
        p \in PrefixOps, x \in LeftAtoms, y \in RightAtoms }
  \cup {<<p, x, op, y>> :
          p \in PrefixOps, x \in LeftAtoms, y \in RightAtoms,
          op \in BinaryOps}

\* ternaries, alone, nested and next to "=" and "+"
TernaryInputs ==
  {<<c, "?", m, ":", r>> : c \in Atoms, m \in Atoms, r \in Atoms}
  \cup {<<c, "?", m, ":", r, "=", "d">> : c \in Atoms, m \in Atoms, r \in Atoms}
  \cup {<<"d", "=", c, "?", m, ":", r>> : c \in Atoms, m \in Atoms, r \in Atoms}
  \cup {<<c, "?", m, "=", "d", ":", r>> : c \in Atoms, m \in Atoms, r \in Atoms}
  \cup {<<c, "?", m, ":", r, "+", "d">> : c \in Atoms, m \in Atoms, r \in Atoms}
  \cup {<<c, "?", m, ":", r, "?", "d", ":", "e">> :
          c \in Atoms, m \in Atoms, r \in Atoms}

\* the examples of associativity that test_parser does not hold
ExampleInputs == {
  <<"a", " ", "+", " ", "b", " ", "+", " ", "c">>,
  <<"a", " ", "=", " ", "b", " ", "=", " ", "c">> }

Inputs ==
  Strings(MaxLen) \cup TestInputs \cup MalformedInputs \cup ExampleInputs
  \cup InfixInputs \cup PrefixPostfixInputs \cup TernaryInputs

Init ==
  /\ \E str \in Inputs : Start(str)
  /\ prev = NoPrev
  /\ wraps = 0

Next == Step \/ Wrap

Spec == Init /\ [][Next]_vars

\* a call of expr runs to its end: Python runs one statement after another
FairSpec == Spec /\ WF_vars(Step)


-----------------------------------------------------------------------------
(* Properties *)

Failures == {"BadTokenError", "BadOpError", "AssertionError"}

\* expr has raised: nothing is returned and nothing more runs
Raised(exc) ==
  /\ status = exc
  /\ result = NoTree
  /\ stack = <<>>
  /\ ~ENABLED Next

\* expr has returned a tree that prints as str
Printed(str) == status = "returned" /\ S_str(result) = str

\* C1: when the sub-expression after "(" has returned, the token taken
\* next is Op ")"; with any other token, Eof included, the parse fails and
\* expr returns no tree.
C1_GroupRequiresCloser ==
  (seen.site = "group" /\ seen.tok # Token_Op(")"))
    => (status \in Failures /\ result = NoTree)

\* C2: whenever expr returns a tree, every token of the input has been
\* consumed; input with tokens left over raises instead.
C2_ReturnsOnlyWhenAllConsumed ==
  status = "returned" => tokens = <<>>

\* C3: where expr_bp expects an operand, Eof makes the parse fail with
\* BadTokenError and an Op other than "(", "+", "-" makes it fail with
\* BadOpError; the error leaves expr and no tree is returned.
C3_OperandErrors ==
  /\ (seen.site = "operand" /\ seen.tok.type = "EOF")
       => Raised("BadTokenError")
  /\ (seen.site = "operand" /\ seen.tok.type = "OP"
        /\ seen.tok.char \notin {"(", "+", "-"})
       => Raised("BadOpError")
  /\ (seen.site = "operand" /\ status \in {"BadTokenError", "BadOpError"})
       => (seen.tok.type = "EOF" <=> status = "BadTokenError")

\* Eof where the right operand of an infix or prefix operator is expected
C3_Witness ==
  /\ seen.site = "operand"
  /\ seen.tok.type = "EOF"
  /\ input = <<"1", " ", "+">>
  /\ Raised("BadTokenError")

\* C4: if expr(e) returns a tree having consumed every token, then
\* expr("(" + e + ")") returns a tree that prints the same, for any
\* number of added pairs of parentheses.
C4_ParenRoundTrip ==
  (wraps > 0 /\ prev.left = 0 /\ status # "running")
    => Printed(prev.str)

\* an operator expression, parenthesised twice, has printed as it did bare
C4_Witness ==
  /\ wraps = 2
  /\ prev.left = 0
  /\ result.type = "CONS"
  /\ Len(result.vec) = 2
  /\ Printed(prev.str)

\* the binding powers the claims state
ClaimedLeft(op) ==
  CASE op = "=" -> 2 [] op = "?" -> 4 [] op \in {"+", "-"} -> 5
    [] op \in {"*", "/"} -> 7 [] op = "." -> 14

ClaimedRight(op) ==
  CASE op = "=" -> 1 [] op = "?" -> 3 [] op \in {"+", "-"} -> 6
    [] op \in {"*", "/"} -> 8 [] op = "." -> 13

\* C5: "a op1 b op2 c" prints "(op1 a (op2 b c))" when
\* left_bp(op2) >= right_bp(op1) and "(op2 (op1 a b) c)" otherwise: + - * /
\* are left-associative, = and . right-associative, and precedence
\* increases = < + - < * / < .
C5_InfixPrecedence ==
  status # "running" =>
    /\ \A a \in Atoms, b \in Atoms, c \in Atoms,
          op1 \in BinaryOps, op2 \in BinaryOps :
         input = <<a, op1, b, op2, c>> =>
           IF ClaimedLeft(op2) >= ClaimedRight(op1)
           THEN Printed("(" \o op1 \o " " \o a \o " (" \o op2 \o " " \o b
                        \o " " \o c \o "))")
           ELSE Printed("(" \o op2 \o " (" \o op1 \o " " \o a \o " " \o b
                        \o ") " \o c \o ")")
    /\ input = <<"a", " ", "+", " ", "b", " ", "+", " ", "c">> => Printed("(+ (+ a b) c)")
    /\ input = <<"a", " ", "=", " ", "b", " ", "=", " ", "c">> => Printed("(= a (= b c))")
    /\ input = <<"f", " ", ".", " ", "g", " ", ".", " ", "h">> => Printed("(. f (. g h))")
    /\ input = <<"1", " ", "+", " ", "2", " ", "*", " ", "3">> => Printed("(+ 1 (* 2 3))")
    /\ input = <<"a", " ", "+", " ", "b", " ", "*", " ", "c", " ", "*", " ", "d", " ", "+", " ", "e">>
         => Printed("(+ (+ a (* (* b c) d)) e)")
    /\ input = <<" ", "1", " ", "+", " ", "2", " ", "+", " ", "f", " ", ".", " ", "g", " ", ".", " ", "h", " ", "*", " ", "3", " ", "*", " ", "4">>
         => Printed("(+ (+ 1 2) (* (* (. f (. g h)) 3) 4))")

\* a looser operator followed by a tighter one
C5_Witness ==
  /\ input = <<"a", "+", "b", "*", "c">>
  /\ Printed("(+ a (* b c))")

\* C6: the operand of a prefix operator takes a following postfix "!" or
\* "[...]" and a following infix "." but no other infix operator; a postfix
\* operator after the right operand of "." applies to the whole "." node;
\* consecutive postfix operators wrap left to right.
C6_PrefixPostfixBinding ==
  status # "running" =>
    /\ \A p \in PrefixOps, x \in LeftAtoms, y \in RightAtoms :
         /\ input = <<p, x, "!">>
              => Printed("(" \o p \o " (! " \o x \o "))")
         /\ input = <<p, x, "[", y, "]">>
              => Printed("(" \o p \o " ([ " \o x \o " " \o y \o "))")
         /\ input = <<p, x, ".", y>>
              => Printed("(" \o p \o " (. " \o x \o " " \o y \o "))")
         /\ input = <<p, p, x, ".", y>>
              => Printed("(" \o p \o " (" \o p \o " (. " \o x \o " " \o y
                         \o ")))")
         /\ input = <<p, x, "?", y, ":", x>>
              => Printed("(? (" \o p \o " " \o x \o ") " \o y \o " " \o x
                         \o ")")
         /\ \A op \in BinaryOps \ {"."} :
              input = <<p, x, op, y>>
                => Printed("(" \o op \o " (" \o p \o " " \o x \o ") " \o y
                           \o ")")
         /\ input = <<x, ".", y, "!">>
              => Printed("(! (. " \o x \o " " \o y \o "))")
         /\ input = <<x, ".", y, "[", x, "]">>
              => Printed("([ (. " \o x \o " " \o y \o ") " \o x \o ")")
         /\ input = <<x, "!", "!">>
              => Printed("(! (! " \o x \o "))")
         /\ input = <<x, "!", "[", y, "]">>
              => Printed("([ (! " \o x \o ") " \o y \o ")")
         /\ input = <<x, "[", y, "]", "!">>
              => Printed("(! ([ " \o x \o " " \o y \o "))")
         /\ input = <<x, "[", y, "]", "[", x, "]">>
              => Printed("([ ([ " \o x \o " " \o y \o ") " \o x \o ")")
    /\ input = <<"-", "9", "!">> => Printed("(- (! 9))")
    /\ input = <<"-", "-", "f", " ", ".", " ", "g">> => Printed("(- (- (. f g)))")
    /\ input = <<"-", "-", "1", " ", "*", " ", "2">> => Printed("(* (- (- 1)) 2)")
    /\ input = <<"f", " ", ".", " ", "g", " ", "!">> => Printed("(! (. f g))")
    /\ input = <<"x", "[", "0", "]", "[", "1", "]">> => Printed("([ ([ x 0) 1)")

\* a postfix operator taken by the operand of a prefix operator
C6_Witness ==
  /\ input = <<"-", "9", "!">>
  /\ result = S_Cons("-", <<S_Cons("!", <<S_Atom("9")>>)>>)
  /\ Printed("(- (! 9))")

\* every node headed "?" has exactly three children
RECURSIVE TernaryArity(_)
TernaryArity(s) ==
  /\ (s.type = "CONS" /\ s.char = "?") => Len(s.vec) = 3
  /\ \A i \in 1..Len(s.vec) : TernaryArity(s.vec[i])

\* C7: "c ? m : r" is a node headed "?" with the three children c, m, r;
\* the middle operand is parsed with min_bp 0 and the right one with
\* min_bp 3, so a ternary after ":" is the third child, "=" after the
\* right operand applies outside the ternary, and "=" before the
\* condition takes the ternary in its right operand.
C7_Ternary ==
  status # "running" =>
    /\ status = "returned" => TernaryArity(result)
    /\ \A c \in Atoms, m \in Atoms, r \in Atoms :
         /\ input = <<c, "?", m, ":", r>>
              => /\ status = "returned"
                 /\ result = S_Cons("?", <<S_Atom(c), S_Atom(m), S_Atom(r)>>)
                 /\ Printed("(? " \o c \o " " \o m \o " " \o r \o ")")
         /\ input = <<c, "?", m, ":", r, "?", "d", ":", "e">>
              => Printed("(? " \o c \o " " \o m \o " (? " \o r \o " d e))")
         /\ input = <<c, "?", m, ":", r, "=", "d">>
              => Printed("(= (? " \o c \o " " \o m \o " " \o r \o ") d)")
         /\ input = <<"d", "=", c, "?", m, ":", r>>
              => Printed("(= d (? " \o c \o " " \o m \o " " \o r \o "))")
         /\ input = <<c, "?", m, "=", "d", ":", r>>
              => Printed("(? " \o c \o " (= " \o m \o " d) " \o r \o ")")
         /\ input = <<c, "?", m, ":", r, "+", "d">>
              => Printed("(? " \o c \o " " \o m \o " (+ " \o r \o " d))")
    /\ input = <<"a", " ", "?", " ", "b", " ", ":", " ", "c", " ", "?", " ", "d", " ", ":", " ", "e">>
         => Printed("(? a b (? c d e))")
    /\ input = <<"a", " ", "=", " ", "0", " ", "?", " ", "b", " ", ":", " ", "c", " ", "=", " ", "d">>
         => Printed("(= a (= (? 0 b c) d))")

\* a ternary nested as the third child of a ternary
C7_Witness ==
  /\ input = <<"a", " ", "?", " ", "b", " ", ":", " ", "c", " ", "?", " ", "d", " ", ":", " ", "e">>
  /\ status = "returned"
  /\ result.char = "?"
  /\ Len(result.vec) = 3
  /\ result.vec[3].char = "?"
  /\ Printed("(? a b (? c d e))")

\* C8: the token taken after the index expression must be Op "]" and the
\* token taken after the middle operand of a ternary must be Op ":"; with
\* any other token, Eof included, the parse aborts and expr returns nothing.
C8_ClosersRequired ==
  /\ (seen.site = "index" /\ seen.tok # Token_Op("]"))
       => Raised("AssertionError")
  /\ (seen.site = "colon" /\ seen.tok # Token_Op(":"))
       => Raised("AssertionError")
  /\ (seen.site = "index" /\ seen.tok = Token_Op("]")) => status \notin Failures
  /\ (seen.site = "colon" /\ seen.tok = Token_Op(":")) => status \notin Failures

\* "]" where the ":" of a ternary is expected
C8_Witness ==
  /\ input = <<"a", " ", "?", " ", "b", " ", "]", " ", "c">>
  /\ seen = [site |-> "colon", tok |-> Token_Op("]")]
  /\ Raised("AssertionError")

\* C9 as stated: the token the loop peeks is always Eof or an Op, never an
\* Atom.
C9_LoopNeverPeeksAtom ==
  seen.site = "loop" => seen.tok.type \in {"EOF", "OP"}

\* C9 as amended: the token the loop peeks is Eof, an Op or an Atom; it is
\* an Atom when an atom follows a complete operand, and then the loop's
\* guard raises BadTokenError and expr returns no tree.
C9_LoopAtomRaises ==
  seen.site = "loop" =>
    /\ seen.tok.type \in {"EOF", "OP", "ATOM"}
    /\ seen.tok.type = "ATOM" => Raised("BadTokenError")
    /\ seen.tok.type # "ATOM" => status # "BadTokenError"

\* an atom right after an operand
C9_Witness ==
  /\ input = <<"1", " ", "2">>
  /\ seen = [site |-> "loop", tok |-> Token_Atom("2")]
  /\ Raised("BadTokenError")

\* the loop has gone on to another iteration or to a call of expr_bp
LoopGoesOn ==
  /\ Running("loop")
  /\ status' = "running"
  /\ Len(stack') >= Len(stack)

\* the loop has ended and expr_bp has returned
LoopEnds ==
  /\ Running("loop")
  /\ status' \in {"running", "returned"}
  /\ Len(stack') < Len(stack)

\* what a step does to the token queue
C10_StepShrinks ==
  /\ LoopGoesOn => Len(tokens') < Len(tokens)
  /\ Running("operand") =>
       \/ Len(tokens') < Len(tokens)
       \/ tokens = <<>> /\ status' = "BadTokenError"
  /\ status = "running" => Len(tokens') <= Len(tokens)
  /\ LoopEnds =>
       LET t == Lexer_peek(tokens) IN
       \/ t.type = "EOF"
       \/ /\ t.type = "OP"
          /\ t.char \in {"!", "["} \cup {"=", "?", "+", "-", "*", "/", "."}
          /\ IF t.char \in {"!", "["} THEN 11 < Top.min_bp
             ELSE ClaimedLeft(t.char) < Top.min_bp
       \/ /\ t.type = "OP"
          /\ t.char \notin {"!", "["} \cup {"=", "?", "+", "-", "*", "/", "."}

\* C10: an iteration of the loop that does not break removes a token, a
\* call of expr_bp removes a token or fails on Eof, the loop ends at Eof,
\* at a binding-power cutoff or at an operator with no postfix or infix
\* binding power, and every call of expr returns or raises in the end.
C10_Terminates ==
  /\ [][C10_StepShrinks]_vars
  /\ (status = "running") ~> (status # "running")

\* a parse of nested calls that has run to its end
C10_Witness ==
  /\ input = <<"a", " ", "+", " ", "b", " ", "*", " ", "c", " ", "*", " ", "d", " ", "+", " ", "e">>
  /\ status = "returned"
  /\ tokens = <<>>
  /\ seen.tok.type = "EOF"

=============================================================================
